---------------------------- MODULE Spec2Model ----------------------------
(***************************************************************************)
(* Sentiment Analysis Dashboard (src/app.py): one Streamlit session.       *)
(*                                                                         *)
(* A Streamlit script is executed top to bottom on every user interaction  *)
(* (a "run").  st.session_state and the widget values survive between      *)
(* runs.  Every action below is one user interaction together with the     *)
(* run(s) it triggers; the progress loop of the Analysis tab is the only   *)
(* place where a run is split into several steps.                          *)
(*                                                                         *)
(* Units: scores are in thousandths (0.3 is 300), confidences in           *)
(* hundredths, percentages in tenths of a percent, file sizes in bytes,    *)
(* time in seconds.                                                        *)
(***************************************************************************)
EXTENDS Integers, Sequences, FiniteSets, TLC

(***************************************************************************)
(* Python None is the empty sequence, a value x that is present is <<x>>.  *)
(***************************************************************************)
None == <<>>

Some(x) == <<x>>

IsNone(o) == o = <<>>

Get(o) == o[1]

Min(a, b) == IF a < b THEN a ELSE b

Max(a, b) == IF a > b THEN a ELSE b

(***************************************************************************)
(* Bounds of the model.                                                    *)
(***************************************************************************)
\* The history lists grow without bound; the model keeps their most recent
\* MaxHistory entries.
MaxHistory == 1

\* Number of rows of the small uploaded tables.
SmallRows == 4

\* Number of instants of Clock the time of day can move to.
MaxTicks == 4

(***************************************************************************)
(* Program constants.                                                      *)
(***************************************************************************)
MAX_LOGIN_ATTEMPTS == 3

SESSION_TIMEOUT_MINUTES == 60

LOCKOUT_SECONDS == 300

MAX_FILE_SIZE_MB == 10

BYTES_PER_MB == 1024 * 1024

COMMON_PASSWORD == "sentiment2024"

ADMIN_USERS == {"admin"}

ALLOWED_USERS == {"admin", "analyst", "user"}

\* st.slider("Sentiment Threshold", 0.0, 1.0, 0.3, 0.05)
THRESHOLD_MIN == 0

THRESHOLD_MAX == 1000

THRESHOLD_DEFAULT == 300

THRESHOLD_STEP == 50

\* the literal 0.3 of the classification in the detailed export
CATEGORY_THRESHOLD == 300

\* st.slider("Sample size (for testing)", 100, min(1000, len(df)), min(500, len(df)))
SAMPLE_SIZE_MIN == 100

SAMPLE_SIZE_MAX == 1000

SAMPLE_SIZE_DEFAULT == 500

\* sample_size = min(50, len(df)) of the sample export
SAMPLE_EXPORT_ROWS == 50

\* the figures the results view and the summary report print
SHOWN_POSITIVE == 65

SHOWN_NEGATIVE == 15

SHOWN_NEUTRAL == 20

\* steps of the progress loop: target_progress of each step
steps == <<15, 30, 45, 60, 75, 90, 100>>

\* minimum cleaned length of a surviving row is "> 3"; maximum cleaned length
MIN_CLEAN_LEN == 3

MAX_CLEAN_LEN == 500

(***************************************************************************)
(* Texts are sequences of characters.  A missing cell (NaN) is NaN.        *)
(***************************************************************************)
NaN == <<"NaN">>

TxtLove == <<"l", "o", "v", "e">>

TxtBad == <<" ", "a", "w", "f", "u", "l">>

TxtOk == <<"o", "k">>

TxtUrl == <<"w", "w", "w", ".", "a", " ">>

TxtPattern == <<TxtLove, TxtLove, TxtOk, TxtBad, TxtUrl, NaN>>

IsSpace(c) == c \in {" ", "\t", "\n"}

RECURSIVE LStrip(_)
LStrip(s) == IF s # <<>> /\ IsSpace(Head(s)) THEN LStrip(Tail(s)) ELSE s

RECURSIVE RStrip(_)
RStrip(s) ==
  IF s # <<>> /\ IsSpace(s[Len(s)]) THEN RStrip(SubSeq(s, 1, Len(s) - 1)) ELSE s

Strip(s) == RStrip(LStrip(s))

StartsWith(s, p) == Len(s) >= Len(p) /\ SubSeq(s, 1, Len(p)) = p

\* a URL-like substring: "http" or "www" followed by at least one non-blank
UrlStart(s) ==
  \/ StartsWith(s, <<"h", "t", "t", "p">>) /\ Len(s) > 4 /\ ~IsSpace(s[5])
  \/ StartsWith(s, <<"w", "w", "w">>) /\ Len(s) > 3 /\ ~IsSpace(s[4])

RECURSIVE DropNonSpace(_)
DropNonSpace(s) ==
  IF s # <<>> /\ ~IsSpace(Head(s)) THEN DropNonSpace(Tail(s)) ELSE s

RECURSIVE RemoveUrls(_)
RemoveUrls(s) ==
  IF s = <<>> THEN <<>>
  ELSE IF UrlStart(s) THEN RemoveUrls(DropNonSpace(s))
  ELSE <<Head(s)>> \o RemoveUrls(Tail(s))

RECURSIVE CollapseSpaces(_)
CollapseSpaces(s) ==
  IF s = <<>> THEN <<>>
  ELSE IF IsSpace(Head(s))
       THEN <<" ">> \o CollapseSpaces(LStrip(s))
       ELSE <<Head(s)>> \o CollapseSpaces(Tail(s))

Truncate(s) == SubSeq(s, 1, Min(Len(s), MAX_CLEAN_LEN))

\* TextNormalizer: clean(raw)
clean(raw) ==
  IF raw = NaN THEN <<>>
  ELSE Truncate(CollapseSpaces(RemoveUrls(Strip(raw))))

\* the row-drop rule: a row survives when its cleaned text is longer than 3
Survives(raw) == Len(clean(raw)) > MIN_CLEAN_LEN

(***************************************************************************)
(* Tables (pandas DataFrames): column names and rows of cells.  Row i of   *)
(* an uploaded table carries the text TxtPattern[i], cyclically.           *)
(***************************************************************************)
PatternText(i) == TxtPattern[((i - 1) % Len(TxtPattern)) + 1]

\* a table of n rows with the columns "id" and "review"
TwoColumnTable(n) ==
  [columns |-> <<"id", "review">>,
   rows |-> [i \in 1..n |-> <<<<"r">>, PatternText(i)>>]]

\* a table of n rows with the single column "review"
ReviewTable(n) ==
  [columns |-> <<"review">>, rows |-> [i \in 1..n |-> <<PatternText(i)>>]]

len(tbl) == Len(tbl.rows)

ColumnIndex(tbl, name) ==
  CHOOSE i \in 1..Len(tbl.columns) : tbl.columns[i] = name

HasColumn(tbl, name) == \E i \in 1..Len(tbl.columns) : tbl.columns[i] = name

Column(tbl, name) ==
  LET c == ColumnIndex(tbl, name) IN [i \in 1..len(tbl) |-> tbl.rows[i][c]]

\* df[name] = values: replaces the column when it exists, else appends it
SetColumn(tbl, name, values) ==
  IF HasColumn(tbl, name)
  THEN LET c == ColumnIndex(tbl, name)
       IN  [tbl EXCEPT !.rows =
              [i \in 1..len(tbl) |-> [tbl.rows[i] EXCEPT ![c] = values[i]]]]
  ELSE [columns |-> Append(tbl.columns, name),
        rows |-> [i \in 1..len(tbl) |-> Append(tbl.rows[i], values[i])]]

\* df.head(k)
head(tbl, k) == [tbl EXCEPT !.rows = SubSeq(tbl.rows, 1, Min(k, len(tbl)))]

\* a column of one repeated value
Repeat(n, x) == [i \in 1..n |-> x]

\* the number of rows of the large uploaded table: the first position of
\* the seeded score stream that holds 0.3 exactly
BoundaryRows == 278

(***************************************************************************)
(* Uploaded files: name and size in bytes.  FileContent is the table the   *)
(* reader (pd.read_csv, pd.read_excel) returns, None when it raises.       *)
(***************************************************************************)
LimitBytes == MAX_FILE_SIZE_MB * BYTES_PER_MB

Files ==
  { [name |-> "small.csv", size |-> 2048],
    [name |-> "edge.xlsx", size |-> LimitBytes],
    [name |-> "huge.csv", size |-> LimitBytes + 1],
    [name |-> "bad.csv", size |-> 2048] }

\* the files uploaded in the sessions that look at the columns of the
\* export: a spreadsheet with unusual column labels and one long text
TableFiles == {[name |-> "wide.xlsx", size |-> 4096]}

SmallTable == TwoColumnTable(SmallRows)

LargeTable == ReviewTable(BoundaryRows)

\* the column label 0: pd.read_excel keeps a numeric header cell as a
\* number, and the integer 0 is falsy in Python
ZeroLabel == "<0>"

\* a text of one character more than 500
TxtLong == [i \in 1..501 |-> "a"]

\* the smallest number of rows for which the sample-size slider is valid
WideRows == SAMPLE_SIZE_MIN + 1

\* a spreadsheet with the header cells 0, review and sentiment_score; its
\* first review is the long text
WideTable ==
  [columns |-> <<ZeroLabel, "review", "sentiment_score">>,
   rows |-> [i \in 1..WideRows |->
               <<<<"r">>, IF i = 1 THEN TxtLong ELSE PatternText(i), <<"o", "l", "d">>>>]]

FileContent(f) ==
  CASE f.name = "small.csv" -> Some(SmallTable)
    [] f.name = "edge.xlsx" -> Some(LargeTable)
    [] f.name = "huge.csv" -> Some(LargeTable)
    [] f.name = "wide.xlsx" -> Some(WideTable)
    [] OTHER -> None

(***************************************************************************)
(* numpy's global generator.  After np.random.seed(42) the generator       *)
(* yields one fixed stream: Seed42Score[p] is uniform(-1, 1).round(3) and  *)
(* Seed42Confidence[p] is uniform(0.6, 0.98).round(2) when drawn at        *)
(* position p of that stream (positions counted from 1).  A generator that *)
(* was never seeded, or that has left the tabulated prefix, is in an       *)
(* unknown state: what it yields is left open (UnknownDraws alternatives). *)
(***************************************************************************)
Seed42Score ==
  <<-251, 901, 464, 197, -688, -688, -884, 732, 202, 416, -959, 940, 665,
    -575, -636, -633, -392, 50, -136, -418, 224, -721, -416, -267, -88,
    570, -601, 28, 185, -907, 215, -659, -870, 898, 931, 617, -391, -805,
    368, -120, -756, -10, -931, 819, -482, 325, -377, 40, 93, -630, 939,
    550, 879, 790, 196, 844, -823, -608, -910, -349, -223, -457, 657, -286,
    -438, 85, -718, 604, -851, 974, 544, -603, -989, 631, 414, 458, 543,
    -852, -283, -768, 726, 247, -338, -873, -378, -350, 459, 275, 774, -56,
    -761, 426, 522, 123, 542, -12, 45, -145, -949, -784, -937, 273, -371,
    17, 815, -501, -179, 511, -542, -846, -420, -678, 859, 616, 267, 743,
    607, -627, 785, 79, 615, 792, -364, -780, -544, -146, 636, 721, -986,
    21, -165, -556, -760, -325, 886, -354, 38, 406, -273, 944, 925, -496,
    -6, -398, -430, -926, 219, 5, -897, -443, 817, -521, -710, -21, 971,
    -516, 344, 523, -525, 456, -264, 265, 267, 72, -819, 671, -358, -627,
    -918, 182, 355, -967, 24, -547, 290, -651, 382, -227, 873, -725, -318,
    -773, 849, 755, -484, 320, 634, 110, 59, -516, -814, 794, 801, 266,
    -322, -302, 452, 794, 774, 560, 284, -832, -677, 797, 213, -982, -797,
    327, -990, -678, 97, 384, 304, -551, 424, -526, -349, 493, 299, 698,
    315, 137, -813, -265, -470, -512, 946, -214, 784, 262, 590, 5, 154,
    -15, -610, 445, -438, -951, 291, -646, 881, 908, 830, -260, -969, 857,
    -144, 933, 927, 706, -411, -230, 702, -366, -661, 114, 872, 392, 140,
    -806, 230, 980, -720, 37, 755, 482, 394, 405, -281, -413, 619, 620,
    734, 826, 23, 3, 597, 300>>

Seed42Confidence ==
  <<74, 96, 88, 83, 66, 66, 62, 93, 83, 87, 61, 97, 92, 68, 67, 67, 72, 80,
    76, 71, 83, 65, 71, 74, 77, 90, 68, 80, 83, 62, 83, 66, 62, 96, 97, 91,
    72, 64, 86, 77, 65, 79, 61, 95, 70, 85, 72, 80, 81, 67, 97, 89, 96, 94,
    83, 95, 63, 67, 62, 72, 75, 70, 91, 74, 71, 81, 65, 90, 63, 98, 89, 68,
    60, 91, 87, 88, 89, 63, 74, 64, 93, 84, 73, 62, 72, 72, 88, 84, 94, 78,
    65, 87, 89, 81, 89, 79, 80, 76, 61, 64, 61, 84, 72, 79, 94, 69, 76, 89,
    69, 63, 71, 66, 95, 91, 84, 93, 91, 67, 94, 80, 91, 94, 72, 64, 69, 76,
    91, 93, 60, 79, 76, 68, 65, 73, 96, 72, 80, 87, 74, 97, 97, 70, 79, 71,
    71, 61, 83, 79, 62, 71, 95, 69, 66, 79, 97, 69, 86, 89, 69, 88, 74, 84,
    84, 80, 63, 92, 72, 67, 62, 82, 86, 61, 79, 69, 85, 67, 86, 75, 96, 65,
    73, 64, 95, 93, 70, 85, 91, 81, 80, 69, 64, 94, 94, 84, 73, 73, 88, 94,
    94, 90, 84, 63, 66, 94, 83, 60, 64, 85, 60, 66, 81, 86, 85, 69, 87, 69,
    72, 88, 85, 92, 85, 82, 64, 74, 70, 69, 97, 75, 94, 84, 90, 79, 82, 79,
    67, 87, 71, 61, 85, 67, 96, 96, 95, 74, 61, 95, 76, 97, 97, 92, 71, 75,
    92, 72, 66, 81, 96, 86, 82, 64, 83, 98, 65, 80, 93, 88, 86, 87, 74, 71,
    91, 91, 93, 95, 79, 79, 90, 85, 87, 90, 94, 73, 74, 64, 82, 61, 78, 81,
    71, 82, 61, 61, 91, 74, 65, 80, 89, 68, 84, 63, 62, 80, 81, 84, 88, 97,
    80, 72, 90, 70, 77, 63, 61, 97, 92, 86, 76, 67, 66, 70, 81, 87, 85, 71,
    96, 88, 81, 83, 76, 69, 74, 89, 61, 64, 62, 62, 93, 87, 78, 64, 79, 78,
    67, 76, 75, 83, 84, 62, 74, 84, 79, 93, 85, 66, 63, 84, 61, 82, 96, 82,
    75, 84, 77, 81, 96, 75, 97, 94, 67, 63, 64, 61, 64, 86, 63, 72, 92, 61,
    91, 71, 64, 86, 84, 93, 88, 91, 71, 67, 89, 91, 98, 76, 74, 90, 73, 95,
    93, 76, 89, 89, 64, 94, 79, 91, 72, 94, 75, 60, 94, 63, 72, 96, 96, 82,
    84, 77, 71, 72, 86, 89, 90, 90, 63, 79, 62, 81, 77, 94, 73, 64, 65, 89,
    83, 64, 63, 87, 63, 91, 87, 63, 63, 97, 74, 74, 91, 96, 97, 89, 74, 63,
    90, 81, 76, 94, 64, 79, 60, 78, 62, 65, 64, 85, 88, 82, 97, 74, 71, 93,
    68, 97, 60, 97, 62, 94, 80, 98, 63, 81, 97, 80, 84, 86, 77, 84, 82, 94,
    62, 71, 96, 94, 77, 84, 71, 67, 78, 73, 82, 63, 97, 97, 87, 80, 72, 91,
    86, 66, 95, 91, 96, 88, 83, 76, 95, 93, 62, 61, 74, 91, 98, 66, 83, 74,
    97, 92, 92, 78, 76, 70, 62, 93, 91, 98, 98, 81, 89, 96, 92, 69, 77, 65,
    96, 83, 69, 86, 83, 74, 64, 86, 80, 89, 80, 92, 81, 81, 93, 75>>

Unseeded == [seeded |-> FALSE, pos |-> 0]

\* np.random.seed(42)
seed(r) == [seeded |-> TRUE, pos |-> 0]

\* alternatives considered for a draw from a generator in an unknown state
UnknownDraws == 2

UnknownScoreValues == <<-1000, -300, 0, 300, 999>>

UnknownConfidenceValues == <<60, 79, 98>>

Labels == <<"Positive", "Neutral", "Negative">>

Cycle(vals, k, n) == [i \in 1..n |-> vals[((i + k) % Len(vals)) + 1]]

Known(r, n, stream) == r.seeded /\ r.pos + n <= Len(stream)

Advance(r, n) == [r EXCEPT !.pos = r.pos + n]

\* np.random.uniform(-1, 1, size=n).round(3): the possible outcomes, each
\* with the generator state it leaves
UniformScore(r, n) ==
  IF Known(r, n, Seed42Score)
  THEN {[values |-> [i \in 1..n |-> Seed42Score[r.pos + i]], rng |-> Advance(r, n)]}
  ELSE {[values |-> Cycle(UnknownScoreValues, k, n), rng |-> Unseeded] :
          k \in 1..UnknownDraws}

\* np.random.uniform(lo, hi, size=n).round(2) for the confidence columns
UniformConfidence(r, n) ==
  IF Known(r, n, Seed42Confidence)
  THEN {[values |-> [i \in 1..n |-> Seed42Confidence[r.pos + i]],
         rng |-> Advance(r, n)]}
  ELSE {[values |-> Cycle(UnknownConfidenceValues, k, n), rng |-> Unseeded] :
          k \in 1..UnknownDraws}

\* np.random.choice(['Positive', 'Neutral', 'Negative'], size=n): the number
\* of generator outputs it consumes is not followed, so its outcome is open
RandomChoice(r, n) ==
  {[values |-> Cycle(Labels, k, n), rng |-> Unseeded] : k \in 1..UnknownDraws}

(***************************************************************************)
(* Inputs of the session.                                                  *)
(***************************************************************************)
UsernameInputs == {"admin", " "}

\* the usernames typed in the sessions that follow the clock: the
\* administrator and the same name with a leading blank and a capital
SessionUsernames == {"admin", " Admin"}

PasswordInputs == {COMMON_PASSWORD, "guess"}

\* the usernames typed in the sessions that look at the export history: an
\* administrator, an allowed user and a name in neither list
TableUsernames == {"admin", "analyst", "bob"}

\* the usernames typed in the sessions that look at the failed attempts: two
\* names with a record each
LockUsernames == {"admin", "analyst"}

\* username.strip().lower() on the usernames above
StripLower(u) ==
  CASE u = " Admin" -> "admin"
    [] u = " " -> ""
    [] OTHER -> u

\* the slider positions tried: the default 0.3 and the next one, 0.35
ThresholdInputs == {THRESHOLD_DEFAULT, THRESHOLD_DEFAULT + THRESHOLD_STEP}

Buttons ==
  {"none", "logout", "clear", "start", "export_summary", "export_detailed",
   "export_samples", "export_chartdata"}

(***************************************************************************)
(* State.  The first group is st.session_state, the second the widget      *)
(* values Streamlit keeps between runs, the third the environment (clock,  *)
(* numpy generator), the fourth the position inside a run and what the     *)
(* run has rendered and offered for download.                              *)
(***************************************************************************)
VARIABLES
  authenticated, username, user_role, login_attempts, last_activity, session_id,
  analysis_started, analysis_complete, df, text_column, file_name,
  export_history, analysis_history, data_loaded,
  uploaded_file, sentiment_threshold, text_column_selector,
  now, rng,
  pc, step, progress, clicked, view, download, logged, prev_detailed

vars ==
  <<authenticated, username, user_role, login_attempts, last_activity, session_id,
    analysis_started, analysis_complete, df, text_column, file_name,
    export_history, analysis_history, data_loaded,
    uploaded_file, sentiment_threshold, text_column_selector,
    now, rng, pc, step, progress, clicked, view, download, logged, prev_detailed>>

\* the selectbox "Analysis Engine" stays on its first option
analysis_mode == "TextBlob (Recommended)"

\* what a run has put on the page
BlankView ==
  [page |-> "dashboard", login_error |-> "", size_error |-> FALSE,
   uploaded_card |-> FALSE, load_error |-> FALSE, start_offered |-> FALSE,
   tab2 |-> "none", tab3 |-> "none", exception |-> FALSE,
   records |-> 0, positive |-> 0, negative |-> 0, neutral |-> 0,
   no_data_warning |-> FALSE, history_shown |-> FALSE]

\* the events an action has appended to the two history lists, and whether
\* its run was ended by check_session_timeout()
NothingLogged == [audit |-> <<>>, export |-> <<>>, timeout |-> FALSE]

Expired == [NothingLogged EXCEPT !.timeout = TRUE]

\* hashlib.sha256(str(time.time())): a token of the time of creation
NewSessionId(t) == Some(t)

\* the session state a run builds from nothing but the two history lists
\* (lines 155-186: every missing key gets its default)
\* login_attempts: per normalised username the number of failed attempts and
\* the time of the last one; a username without an entry has attempts 0
NormalNames ==
  {StripLower(u) : u \in UsernameInputs \cup SessionUsernames \cup TableUsernames
                                 \cup LockUsernames}

NoAttempts == [u \in NormalNames |-> [attempts |-> 0, last_attempt |-> 0]]

DefaultState(ah, eh, t, r) ==
  [authenticated |-> FALSE, username |-> None, user_role |-> "user",
   login_attempts |-> NoAttempts, last_activity |-> t, session_id |-> NewSessionId(t),
   analysis_started |-> FALSE, analysis_complete |-> FALSE, df |-> None,
   text_column |-> None, file_name |-> None, export_history |-> eh,
   analysis_history |-> ah, data_loaded |-> FALSE,
   uploaded_file |-> None, sentiment_threshold |-> THRESHOLD_DEFAULT,
   text_column_selector |-> None, rng |-> r,
   view |-> [BlankView EXCEPT !.page = "login"], download |-> None,
   logged |-> NothingLogged]

\* the current state as one record
S ==
  [authenticated |-> authenticated, username |-> username, user_role |-> user_role,
   login_attempts |-> login_attempts, last_activity |-> last_activity,
   session_id |-> session_id, analysis_started |-> analysis_started,
   analysis_complete |-> analysis_complete, df |-> df, text_column |-> text_column,
   file_name |-> file_name, export_history |-> export_history,
   analysis_history |-> analysis_history, data_loaded |-> data_loaded,
   uploaded_file |-> uploaded_file, sentiment_threshold |-> sentiment_threshold,
   text_column_selector |-> text_column_selector, rng |-> rng,
   view |-> view, download |-> download, logged |-> logged]

\* the next state is the record s
Becomes(s) ==
  /\ authenticated' = s.authenticated
  /\ username' = s.username
  /\ user_role' = s.user_role
  /\ login_attempts' = s.login_attempts
  /\ last_activity' = s.last_activity
  /\ session_id' = s.session_id
  /\ analysis_started' = s.analysis_started
  /\ analysis_complete' = s.analysis_complete
  /\ df' = s.df
  /\ text_column' = s.text_column
  /\ file_name' = s.file_name
  /\ export_history' = s.export_history
  /\ analysis_history' = s.analysis_history
  /\ data_loaded' = s.data_loaded
  /\ uploaded_file' = s.uploaded_file
  /\ sentiment_threshold' = s.sentiment_threshold
  /\ text_column_selector' = s.text_column_selector
  /\ rng' = s.rng
  /\ view' = s.view
  /\ download' = s.download
  /\ logged' = s.logged

\* the current state is the record s
Is(s) ==
  /\ authenticated = s.authenticated
  /\ username = s.username
  /\ user_role = s.user_role
  /\ login_attempts = s.login_attempts
  /\ last_activity = s.last_activity
  /\ session_id = s.session_id
  /\ analysis_started = s.analysis_started
  /\ analysis_complete = s.analysis_complete
  /\ df = s.df
  /\ text_column = s.text_column
  /\ file_name = s.file_name
  /\ export_history = s.export_history
  /\ analysis_history = s.analysis_history
  /\ data_loaded = s.data_loaded
  /\ uploaded_file = s.uploaded_file
  /\ sentiment_threshold = s.sentiment_threshold
  /\ text_column_selector = s.text_column_selector
  /\ rng = s.rng
  /\ view = s.view
  /\ download = s.download
  /\ logged = s.logged

\* list.append on a history list, of which the most recent MaxHistory
\* entries are kept
Keep(h) == IF Len(h) > MaxHistory THEN SubSeq(h, Len(h) - MaxHistory + 1, Len(h)) ELSE h

LogAudit(s, e) ==
  [s EXCEPT !.analysis_history = Keep(Append(@, e)),
            !.logged.audit = Append(@, e)]

LogExport(s, e) ==
  [s EXCEPT !.export_history = Keep(Append(@, e)),
            !.logged.export = Append(@, e)]

Init ==
  /\ Is(DefaultState(<<>>, <<>>, 0, Unseeded))
  /\ now = 0
  /\ pc = "idle"
  /\ step = 0
  /\ progress = 0
  /\ clicked = "none"
  /\ prev_detailed = None

(***************************************************************************)
(* Authentication.                                                         *)
(***************************************************************************)
\* check_password comparing the password before it looks at the lockout
check_password_PasswordFirst(attempts, u, password, t) ==
  LET name == StripLower(u)
      known == attempts[name].attempts > 0
      locked == /\ known
                /\ attempts[name].attempts >= MAX_LOGIN_ATTEMPTS
                /\ t - attempts[name].last_attempt < LOCKOUT_SECONDS
  IN  IF name # "" /\ password = COMMON_PASSWORD
      THEN [ok |-> TRUE,
            message |-> IF name \in ADMIN_USERS THEN "admin"
                        ELSE IF name \in ALLOWED_USERS THEN "user"
                        ELSE "guest",
            attempts |-> [attempts EXCEPT ![name] = [attempts |-> 0, last_attempt |-> 0]]]
      ELSE IF locked
      THEN [ok |-> FALSE,
            message |-> "Too many failed attempts. Please try again in 5 minutes.",
            attempts |-> attempts]
      ELSE [ok |-> FALSE, message |-> "Invalid credentials",
            attempts |-> [attempts EXCEPT ![name] =
                            [attempts |-> IF known THEN @.attempts + 1 ELSE 1,
                             last_attempt |-> t]]]

\* check_password(username, password): the result and the attempts table
check_password(attempts, u, password, t) ==
  LET name == StripLower(u)
      known == attempts[name].attempts > 0
      locked == /\ known
                /\ attempts[name].attempts >= MAX_LOGIN_ATTEMPTS
                /\ t - attempts[name].last_attempt < LOCKOUT_SECONDS
  IN  IF locked
      THEN [ok |-> FALSE,
            message |-> "Too many failed attempts. Please try again in 5 minutes.",
            attempts |-> attempts]
      ELSE IF name # "" /\ password = COMMON_PASSWORD
      THEN [ok |-> TRUE,
            message |-> IF name \in ADMIN_USERS THEN "admin"
                        ELSE IF name \in ALLOWED_USERS THEN "user"
                        ELSE "guest",
            attempts |-> [attempts EXCEPT ![name] = [attempts |-> 0, last_attempt |-> 0]]]
      ELSE [ok |-> FALSE, message |-> "Invalid credentials",
            attempts |-> [attempts EXCEPT ![name] =
                            [attempts |-> IF known THEN @.attempts + 1 ELSE 1,
                             last_attempt |-> t]]]

\* a logout that leaves the uploaded table and its names in the session
logout_KeepsData(s, t) ==
  LET out == LogAudit(s, [timestamp |-> t, username |-> s.username,
                             action |-> "logout"])
      fresh == DefaultState(out.analysis_history, out.export_history, t, s.rng)
  IN  [fresh EXCEPT !.logged = out.logged, !.df = s.df,
                    !.text_column = s.text_column, !.file_name = s.file_name]

\* a logout that deletes the sensitive keys and the authentication keys and
\* stops there, without the clearing of every other key
logout_SensitiveOnly(s, t) ==
  LET out == LogAudit(s, [timestamp |-> t, username |-> s.username,
                             action |-> "logout"])
      fresh == DefaultState(out.analysis_history, out.export_history, t, s.rng)
  IN  [fresh EXCEPT !.logged = out.logged,
                    !.analysis_started = s.analysis_started,
                    !.analysis_complete = s.analysis_complete,
                    !.data_loaded = s.data_loaded,
                    !.login_attempts = s.login_attempts,
                    !.last_activity = s.last_activity]

\* logout() followed by the run that safe_rerun() starts: the logout event is
\* logged, every key but the two history lists is deleted, and the new run
\* gives every missing key its default and shows the login page.  The widgets
\* of the dashboard are not drawn in that run and lose their values.
logout(s, t) ==
  LET out == LogAudit(s, [timestamp |-> t, username |-> s.username,
                             action |-> "logout"])
      fresh == DefaultState(out.analysis_history, out.export_history, t, s.rng)
  IN  [fresh EXCEPT !.logged = out.logged]

\* the timeout reached at exactly the limit as well
TimedOutAtLimit(s, t) == t - s.last_activity >= SESSION_TIMEOUT_MINUTES * 60

\* check_session_timeout(): the condition under which it logs out
TimedOut(s, t) == t - s.last_activity > SESSION_TIMEOUT_MINUTES * 60

\* update_activity()
update_activity(s, t) == [s EXCEPT !.last_activity = t]

\* a run starts with an empty page and nothing to download
StartRun(s) == [s EXCEPT !.view = BlankView, !.download = None]

(***************************************************************************)
(* Data Upload tab.                                                        *)
(***************************************************************************)
\* round(a / b), Python's round-half-to-even
RoundDiv(a, b) ==
  LET q == a \div b
      r == a % b
  IN  IF 2 * r < b THEN q
      ELSE IF 2 * r > b THEN q + 1
      ELSE IF q % 2 = 0 THEN q ELSE q + 1

\* the size check rejecting a file of exactly the maximum size as well
FileTooLargeOrEqual(f) == f.size >= MAX_FILE_SIZE_MB * BYTES_PER_MB

\* file_size_mb > config['MAX_FILE_SIZE_MB'], file_size_mb = bytes / (1024 * 1024)
FileTooLarge(f) == f.size > MAX_FILE_SIZE_MB * BYTES_PER_MB

\* st.slider(label, min_value, max_value, value) raises StreamlitAPIException
\* unless min_value is below max_value
SliderRaises(lo, hi) == ~(lo < hi)

SampleSliderRaises(tbl) ==
  SliderRaises(SAMPLE_SIZE_MIN, Min(SAMPLE_SIZE_MAX, len(tbl)))

\* the value of st.selectbox(..., df.columns.tolist(), key="text_column_selector"):
\* the kept choice when it is one of the options, else the first option
Selected(sel, tbl) ==
  IF ~IsNone(sel) /\ HasColumn(tbl, Get(sel)) THEN sel
  ELSE IF tbl.columns = <<>> THEN None
  ELSE Some(tbl.columns[1])

\* Python truthiness of st.session_state.text_column
Truthy(col) == ~IsNone(col) /\ Get(col) \notin {"", ZeroLabel}

upload_event(s, f, tbl, t) ==
  [timestamp |-> t, username |-> s.username, filename |-> f.name,
   size_mb |-> RoundDiv(f.size * 100, BYTES_PER_MB), rows |-> len(tbl),
   columns |-> Len(tbl.columns)]

error_event(s, f, t, e) ==
  [timestamp |-> t, username |-> s.username, error |-> e, filename |-> f.name]

analysis_event(s, tbl, t) ==
  [timestamp |-> t, username |-> s.username, action |-> "analysis_started",
   text_column |-> s.text_column, rows |-> len(tbl),
   sample_size |-> Min(SAMPLE_SIZE_DEFAULT, len(tbl))]

\* the except branch of the upload: "Error loading file" and the error event
LoadError(s, f, t, e) ==
  LogAudit([s EXCEPT !.view.load_error = TRUE], error_event(s, f, t, e))

\* lines 1322-1464: the run of the upload tab with the button click of this
\* run; rerun tells that the run ended in safe_rerun()
Tab1(s, click, t) ==
  IF IsNone(s.uploaded_file)
  THEN [s |-> [s EXCEPT !.text_column_selector = None], rerun |-> FALSE]
  ELSE
    LET f == Get(s.uploaded_file) IN
    IF FileTooLarge(f)
    THEN [s |-> [s EXCEPT !.view.size_error = TRUE, !.text_column_selector = None],
          rerun |-> FALSE]
    ELSE IF IsNone(FileContent(f))
    THEN [s |-> LoadError([s EXCEPT !.text_column_selector = None], f, t, "parse"),
          rerun |-> FALSE]
    ELSE
      LET tbl == Get(FileContent(f))
          stored == [s EXCEPT !.df = Some(tbl), !.file_name = Some(f.name),
                              !.data_loaded = TRUE]
          noted == LogAudit(stored, upload_event(s, f, tbl, t))
          col == Selected(s.text_column_selector, tbl)
          chosen == [noted EXCEPT !.view.uploaded_card = TRUE,
                                   !.text_column_selector = col,
                                   !.text_column = col]
      IN  IF SampleSliderRaises(tbl)
          THEN [s |-> LoadError(chosen, f, t, "slider"), rerun |-> FALSE]
          ELSE IF click = "start"
          THEN [s |-> LogAudit([chosen EXCEPT !.view.start_offered = TRUE,
                                              !.analysis_started = TRUE],
                               analysis_event(chosen, tbl, t)),
                rerun |-> TRUE]
          ELSE [s |-> [chosen EXCEPT !.view.start_offered = TRUE], rerun |-> FALSE]

\* the clearing that leaves data_loaded as it was
ClearSession_KeepsLoaded(s) ==
  [s EXCEPT !.analysis_started = FALSE, !.analysis_complete = FALSE,
            !.df = None, !.text_column = None, !.file_name = None]

\* "Clear Session Data" (lines 1169-1176), before its safe_rerun()
ClearSession(s) ==
  [s EXCEPT !.analysis_started = FALSE, !.analysis_complete = FALSE,
            !.df = None, !.text_column = None, !.file_name = None,
            !.data_loaded = FALSE]

\* a dashboard run from its first line to the end of the upload tab; a run
\* that ends in safe_rerun() is followed by the run it starts
RunToUpload(s, click, t) ==
  LET first == StartRun(update_activity([s EXCEPT !.logged = NothingLogged], t))
      afterClear == IF click = "clear"
                    THEN StartRun(update_activity(ClearSession(first), t))
                    ELSE first
      a == Tab1(afterClear, click, t)
  IN  IF a.rerun THEN Tab1(StartRun(update_activity(a.s, t)), "none", t).s
      ELSE a.s

(***************************************************************************)
(* Analysis tab and Results & Export tab.                                  *)
(***************************************************************************)
\* the Analysis tab marking the analysis complete as soon as data is loaded
Tab2IdleCompletes(s) ==
  IF s.data_loaded
  THEN IF IsNone(s.df) THEN [s EXCEPT !.view.exception = TRUE]
       ELSE [s EXCEPT !.view.tab2 = "ready", !.analysis_complete = TRUE]
  ELSE [s EXCEPT !.view.tab2 = "no_data"]

\* lines 1467-1494: the Analysis tab when no analysis was started.
\* len(None) raises and ends the run.
Tab2Idle(s) ==
  IF s.data_loaded
  THEN IF IsNone(s.df) THEN [s EXCEPT !.view.exception = TRUE]
       ELSE [s EXCEPT !.view.tab2 = "ready"]
  ELSE [s EXCEPT !.view.tab2 = "no_data"]

completion_event(s, t) ==
  [timestamp |-> t, username |-> s.username, action |-> "analysis_completed",
   duration_seconds |-> Len(steps) * 4]

\* the completion that logs its event and leaves analysis_complete as it was
Completion_FlagNotSet(s, t) ==
  LogAudit([s EXCEPT !.view.tab2 = "completed"], completion_event(s, t))

\* lines 1533-1545: what follows the progress loop
Completion(s, t) ==
  LogAudit([s EXCEPT !.analysis_complete = TRUE, !.view.tab2 = "completed"],
           completion_event(s, t))

\* the classification with the boundary scores counted as non-neutral
CategoryNonStrict(score) ==
  IF score >= CATEGORY_THRESHOLD THEN "Positive"
  ELSE IF score <= -CATEGORY_THRESHOLD THEN "Negative"
  ELSE "Neutral"

\* the classification with the five levels of the chart data
Category_FiveLevels(score) ==
  IF score > 2 * CATEGORY_THRESHOLD THEN "Very Positive"
  ELSE IF score > CATEGORY_THRESHOLD THEN "Positive"
  ELSE IF score < -2 * CATEGORY_THRESHOLD THEN "Very Negative"
  ELSE IF score < -CATEGORY_THRESHOLD THEN "Negative"
  ELSE "Neutral"

\* the classification of the detailed export (lines 1810-1813)
Category(score) ==
  IF score > CATEGORY_THRESHOLD THEN "Positive"
  ELSE IF score < -CATEGORY_THRESHOLD THEN "Negative"
  ELSE "Neutral"

\* the generator left as it is, where the export seeds it
NoSeed(r) == r

\* np.random.seed(42) of the detailed export (line 1808)
SeedForExport(r) == seed(r)

\* a copy that keeps only the rows whose last cell survives the row-drop rule
CopySurvivors(tbl) ==
  [tbl EXCEPT !.rows = SelectSeq(tbl.rows, LAMBDA row : Survives(row[Len(row)]))]

\* st.session_state.df.copy() (line 1805)
copy(tbl) == tbl

\* the export events; a file name is its prefix and the time
export_event(s, type, t) ==
  [timestamp |-> t, username |-> s.username, export_type |-> type,
   filename |-> <<type, t>>]

detailed_export_event(s, n, t) ==
  [timestamp |-> t, username |-> s.username, export_type |-> "detailed_analysis",
   filename |-> <<"detailed_analysis", t>>, records |-> n]

sample_export_event(s, n, t) ==
  [timestamp |-> t, username |-> s.username, export_type |-> "sample_data",
   filename |-> <<"sample_data", t>>, sample_size |-> n]

\* "Export Summary Report" (lines 1746-1784)
ExportSummary(s, t) ==
  LET summary_data ==
        [report_type |-> "Sentiment Analysis Summary",
         generated_by |-> s.username,
         generation_date |-> t,
         total_records |-> IF IsNone(s.df) THEN 0 ELSE len(Get(s.df)),
         positive |-> SHOWN_POSITIVE * 10,
         negative |-> SHOWN_NEGATIVE * 10,
         neutral |-> SHOWN_NEUTRAL * 10,
         average_confidence |-> 82,
         analysis_engine |-> analysis_mode,
         session_id |-> s.session_id]
      out == LogExport(s, export_event(s, "summary_report", t))
  IN  {[out EXCEPT !.download =
          Some([export_type |-> "summary_report", data |-> summary_data])]}

\* lines 1805-1817: the detailed table built from a copy of df with the
\* drawn scores and confidences
DetailedTable(base, scores, confidences, who, t) ==
  LET n == len(base)
      d1 == SetColumn(base, "sentiment_score", scores)
      score == Column(d1, "sentiment_score")
      d2 == SetColumn(d1, "sentiment_category", [i \in 1..n |-> Category(score[i])])
      d3 == SetColumn(d2, "confidence_score", confidences)
      d4 == SetColumn(d3, "analysis_timestamp", Repeat(n, t))
      d5 == SetColumn(d4, "analysis_engine", Repeat(n, analysis_mode))
  IN  SetColumn(d5, "analyzed_by", Repeat(n, who))

\* "Export Detailed Analysis" (lines 1802-1843), one outcome per outcome of
\* the draws
ExportDetailed(s, t) ==
  IF ~IsNone(s.df) /\ Truthy(s.text_column)
  THEN
    LET base == copy(Get(s.df))
        n == len(base)
    IN  UNION {
          { LET out == LogExport(s, detailed_export_event(s, n, t))
            IN  [out EXCEPT
                   !.rng = cf.rng,
                   !.download =
                     Some([export_type |-> "detailed_analysis",
                           data |-> DetailedTable(base, sc.values, cf.values,
                                                  s.username, t)])] :
            cf \in UniformConfidence(sc.rng, n) } :
          sc \in UniformScore(SeedForExport(s.rng), n) }
  ELSE {[s EXCEPT !.view.no_data_warning = TRUE]}

\* np.random.uniform(0.7, 0.95, size=n).round(2) of the sample export; it
\* follows np.random.choice, so the generator is in an unknown state
SampleConfidenceValues == <<70, 83, 95>>

UniformSampleConfidence(r, n) ==
  {[values |-> Cycle(SampleConfidenceValues, k, n), rng |-> Unseeded] :
     k \in 1..UnknownDraws}

\* "Export Sample Data" (lines 1861-1894)
ExportSample(s, t) ==
  IF ~IsNone(s.df) /\ Truthy(s.text_column)
  THEN
    LET sample_size == Min(SAMPLE_EXPORT_ROWS, len(Get(s.df)))
        sample_df == head(Get(s.df), sample_size)
        n == len(sample_df)
    IN  UNION {
          { LET out == LogExport(s, sample_export_event(s, sample_size, t))
                d1 == SetColumn(sample_df, "predicted_sentiment", ch.values)
            IN  [out EXCEPT
                   !.rng = cf.rng,
                   !.download =
                     Some([export_type |-> "sample_data",
                           data |-> SetColumn(d1, "confidence", cf.values)])] :
            cf \in UniformSampleConfidence(ch.rng, n) } :
          ch \in RandomChoice(s.rng, n) }
  ELSE {s}

\* "Export Chart Data" (lines 1897-1927)
chart_data(t) ==
  [columns |-> <<"sentiment_level", "percentage", "count", "avg_confidence",
                 "analysis_date">>,
   rows |-> <<<<"Very Positive", 25, 250, 92, t>>, <<"Positive", 40, 400, 85, t>>,
              <<"Neutral", 20, 200, 78, t>>, <<"Negative", 10, 100, 82, t>>,
              <<"Very Negative", 5, 50, 88, t>>>>]

\* the chart export that offers its download without logging it
ExportChart_Unlogged(s, t) ==
  {[s EXCEPT !.download = Some([export_type |-> "chart_data", data |-> chart_data(t)])]}

ExportChart(s, t) ==
  {[LogExport(s, export_event(s, "chart_data", t)) EXCEPT
      !.download = Some([export_type |-> "chart_data", data |-> chart_data(t)])]}

\* the export history shown to every role
Tab3_HistoryForAll(s, click, t) ==
  IF ~s.analysis_complete
  THEN {[s EXCEPT !.view.tab3 =
           IF s.analysis_started THEN "in_progress" ELSE "complete_first"]}
  ELSE IF IsNone(s.df)
  THEN {[s EXCEPT !.view.tab3 = "results", !.view.exception = TRUE]}
  ELSE
    LET shown == [s EXCEPT !.view.tab3 = "results",
                           !.view.positive = SHOWN_POSITIVE * 10,
                           !.view.negative = SHOWN_NEGATIVE * 10,
                           !.view.neutral = SHOWN_NEUTRAL * 10,
                           !.view.records = len(Get(s.df))]
        exported ==
          CASE click = "export_summary" -> ExportSummary(shown, t)
            [] click = "export_detailed" -> ExportDetailed(shown, t)
            [] click = "export_samples" -> ExportSample(shown, t)
            [] click = "export_chartdata" -> ExportChart(shown, t)
            [] OTHER -> {shown}
    IN  {[x EXCEPT !.view.history_shown = x.export_history # <<>>] : x \in exported}

\* lines 1553-1946: the Results & Export tab with the button click of this
\* run; the set of states the run can end in
Tab3(s, click, t) ==
  IF ~s.analysis_complete
  THEN {[s EXCEPT !.view.tab3 =
           IF s.analysis_started THEN "in_progress" ELSE "complete_first"]}
  ELSE IF IsNone(s.df)
  THEN {[s EXCEPT !.view.tab3 = "results", !.view.exception = TRUE]}
  ELSE
    LET shown == [s EXCEPT !.view.tab3 = "results",
                           !.view.positive = SHOWN_POSITIVE * 10,
                           !.view.negative = SHOWN_NEGATIVE * 10,
                           !.view.neutral = SHOWN_NEUTRAL * 10,
                           !.view.records = len(Get(s.df))]
        exported ==
          CASE click = "export_summary" -> ExportSummary(shown, t)
            [] click = "export_detailed" -> ExportDetailed(shown, t)
            [] click = "export_samples" -> ExportSample(shown, t)
            [] click = "export_chartdata" -> ExportChart(shown, t)
            [] OTHER -> {shown}
    IN  {[x EXCEPT !.view.history_shown =
            x.user_role = "admin" /\ x.export_history # <<>>] : x \in exported}

(***************************************************************************)
(* Actions: one user interaction and the run(s) it triggers.               *)
(***************************************************************************)
IsExport(d, type) == ~IsNone(d) /\ Get(d).export_type = type

\* the scores and labels of the last detailed export made for the table
\* and the threshold the session holds now, whether another export was made
\* since, and whether that export itself repeated an earlier one after
\* another export
ScoresAndLabels(d) ==
  [scores |-> Column(Get(d).data, "sentiment_score"),
   labels |-> Column(Get(d).data, "sentiment_category")]

Remember(s) ==
  IF IsExport(s.download, "detailed_analysis")
  THEN Some([result |-> ScoresAndLabels(s.download), since |-> FALSE,
             repeated |-> /\ ~IsNone(prev_detailed)
                          /\ Get(prev_detailed).since
                          /\ s.df = df
                          /\ s.sentiment_threshold = sentiment_threshold])
  ELSE IF s.df # df \/ s.sentiment_threshold # sentiment_threshold
  THEN None
  ELSE IF ~IsNone(s.download) /\ ~IsNone(prev_detailed)
  THEN Some([Get(prev_detailed) EXCEPT !.since = TRUE])
  ELSE prev_detailed

\* the run ends with the state s
EndRun(s) ==
  /\ Becomes(s)
  /\ pc' = "idle"
  /\ clicked' = "none"
  /\ prev_detailed' = Remember(s)

\* a dashboard run on the state s with the button click of this run: it
\* ends at the progress loop when an analysis was started, else it goes on
\* through the Results & Export tab
Dashboard(s, click) ==
  IF TimedOut(s, now)
  THEN EndRun(logout([s EXCEPT !.logged = Expired], now)) /\ step' = 0 /\ progress' = 0
  ELSE
    LET a == RunToUpload(s, click, now) IN
    IF a.analysis_started
    THEN /\ Becomes([a EXCEPT !.view.tab2 = "running"])
         /\ pc' = "steps"
         /\ step' = 0
         /\ progress' = 0
         /\ clicked' = IF click \in {"start", "clear"} THEN "none" ELSE click
         /\ prev_detailed' = Remember(a)
    ELSE
      LET b == Tab2Idle(a) IN
      /\ step' = 0
      /\ progress' = 0
      /\ IF b.view.exception THEN EndRun(b)
         ELSE \E c \in Tab3(b, click, now) : EndRun(c)

\* the login form is submitted (lines 954-978); a successful login ends in
\* safe_rerun() and the dashboard run follows
LoginSubmit(u, password) ==
  /\ ~authenticated
  /\ LET s == [S EXCEPT !.view = [BlankView EXCEPT !.page = "login"],
                        !.download = None, !.logged = NothingLogged]
     IN  IF StripLower(u) = ""
         THEN /\ EndRun([s EXCEPT !.view.login_error = "Please enter a username"])
              /\ UNCHANGED <<step, progress>>
         ELSE
           LET r == check_password(login_attempts, u, password, now) IN
           IF r.ok
           THEN Dashboard(
                  LogAudit([s EXCEPT !.login_attempts = r.attempts,
                                     !.authenticated = TRUE,
                                     !.username = Some(u),
                                     !.user_role = r.message,
                                     !.last_activity = now],
                           [timestamp |-> now, username |-> u, ip |-> "unknown",
                            user_agent |-> "unknown"]),
                  "none")
           ELSE /\ EndRun([s EXCEPT !.login_attempts = r.attempts,
                                    !.view.login_error = r.message])
                /\ UNCHANGED <<step, progress>>
  /\ UNCHANGED now

\* "Secure Logout" (lines 1099-1103)
Logout ==
  /\ authenticated
  /\ IF TimedOut(S, now)
     THEN EndRun(logout([S EXCEPT !.logged = Expired], now))
     ELSE EndRun(logout(update_activity([S EXCEPT !.logged = NothingLogged], now), now))
  /\ step' = 0
  /\ progress' = 0
  /\ UNCHANGED now

\* "Clear Session Data" (lines 1169-1176)
ClearSessionData ==
  /\ authenticated
  /\ Dashboard(S, "clear")
  /\ UNCHANGED now

\* a file is put into the uploader
UploadFile(f) ==
  /\ authenticated
  /\ uploaded_file # Some(f)
  /\ Dashboard([S EXCEPT !.uploaded_file = Some(f)], "none")
  /\ UNCHANGED now

\* the file is taken out of the uploader
RemoveFile ==
  /\ authenticated
  /\ ~IsNone(uploaded_file)
  /\ Dashboard([S EXCEPT !.uploaded_file = None], "none")
  /\ UNCHANGED now

\* the "Sentiment Threshold" slider is moved (lines 1141-1145)
SetThreshold(v) ==
  /\ authenticated
  /\ v # sentiment_threshold
  /\ Dashboard([S EXCEPT !.sentiment_threshold = v], "none")
  /\ UNCHANGED now

\* another text column is selected (lines 1411-1418)
SelectTextColumn(c) ==
  /\ authenticated
  /\ view.uploaded_card
  /\ ~IsNone(df)
  /\ HasColumn(Get(df), c)
  /\ text_column_selector # Some(c)
  /\ Dashboard([S EXCEPT !.text_column_selector = Some(c)], "none")
  /\ UNCHANGED now

\* "Start Secure Analysis" (lines 1439-1453)
StartAnalysis ==
  /\ authenticated
  /\ view.start_offered
  /\ Dashboard(S, "start")
  /\ UNCHANGED now

\* one iteration of the progress loop (lines 1523-1530)
AnalysisStep ==
  /\ pc = "steps"
  /\ step < Len(steps)
  /\ step' = step + 1
  /\ progress' = steps[step + 1]
  /\ UNCHANGED <<authenticated, username, user_role, login_attempts, last_activity,
                 session_id, analysis_started, analysis_complete, df, text_column,
                 file_name, export_history, analysis_history, data_loaded,
                 uploaded_file, sentiment_threshold, text_column_selector,
                 now, rng, pc, clicked, view, download, logged, prev_detailed>>

\* the rest of the run after the loop (lines 1533-1946)
CompleteAnalysis ==
  /\ pc = "steps"
  /\ step = Len(steps)
  /\ \E c \in Tab3(Completion(S, now), clicked, now) : EndRun(c)
  /\ UNCHANGED <<now, step, progress>>

\* the four export buttons of a finished run (lines 1746, 1802, 1861, 1897)
Export(button) ==
  /\ authenticated
  /\ pc = "idle"
  /\ view.tab3 = "results"
  /\ ~view.exception
  /\ Dashboard(S, button)
  /\ UNCHANGED now

ExportSummaryReport == Export("export_summary")

ExportDetailedAnalysis == Export("export_detailed")

ExportSampleData == Export("export_samples")

ExportChartData == Export("export_chartdata")

\* any other interaction that only reruns the script ("View Secure Results")
Rerun ==
  /\ authenticated
  /\ Dashboard(S, "none")
  /\ UNCHANGED now

Next ==
  \/ \E u \in UsernameInputs, p \in PasswordInputs : LoginSubmit(u, p)
  \/ Logout
  \/ ClearSessionData
  \/ \E f \in Files : UploadFile(f)
  \/ RemoveFile
  \/ \E v \in ThresholdInputs : SetThreshold(v)
  \/ \E c \in {"id", "review"} : SelectTextColumn(c)
  \/ StartAnalysis
  \/ AnalysisStep
  \/ CompleteAnalysis
  \/ ExportSummaryReport
  \/ ExportDetailedAnalysis
  \/ ExportSampleData
  \/ ExportChartData
  \/ Rerun

Spec == Init /\ [][Next]_vars

(***************************************************************************)
(* The clock.  datetime.now() is read from `now`; the instants it moves to *)
(* lie on both sides of the lockout of check_password and of the session   *)
(* timeout.                                                                *)
(***************************************************************************)
TIMEOUT_SECONDS == SESSION_TIMEOUT_MINUTES * 60

Clock ==
  <<LOCKOUT_SECONDS - 1, LOCKOUT_SECONDS, TIMEOUT_SECONDS, TIMEOUT_SECONDS + 1,
    TIMEOUT_SECONDS + LOCKOUT_SECONDS, 2 * TIMEOUT_SECONDS + 1>>

\* time passes between two steps of the program
Tick ==
  /\ pc = "idle"
  /\ \E i \in 1..MaxTicks : Clock[i] > now /\ now' = Clock[i]
  /\ UNCHANGED <<authenticated, username, user_role, login_attempts, last_activity,
                 session_id, analysis_started, analysis_complete, df, text_column,
                 file_name, export_history, analysis_history, data_loaded,
                 uploaded_file, sentiment_threshold, text_column_selector,
                 rng, pc, step, progress, clicked, view, download, logged,
                 prev_detailed>>

\* the file uploaded in the sessions that follow the clock
SessionFiles == {f \in Files : f.name = "edge.xlsx"}

\* the sessions that follow the clock: logins under several names, one
\* table, its analysis and the summary export
SessionNext ==
  \/ Tick
  \/ \E u \in SessionUsernames, p \in PasswordInputs : LoginSubmit(u, p)
  \/ Logout
  \/ \E f \in SessionFiles : UploadFile(f)
  \/ StartAnalysis
  \/ AnalysisStep
  \/ CompleteAnalysis
  \/ ExportSummaryReport
  \/ Rerun

SessionSpec == Init /\ [][SessionNext]_vars

(***************************************************************************)
(* The user who waits for a running script to finish before the next       *)
(* click: nothing but the progress loop moves while a run is under way.    *)
(* A run that is not interrupted executes to its end, hence the weak       *)
(* fairness of the two steps of the loop.                                  *)
(***************************************************************************)
Waiting == pc = "idle"

PatientNext ==
  \/ \E u \in UsernameInputs, p \in PasswordInputs : LoginSubmit(u, p)
  \/ Waiting /\ Logout
  \/ Waiting /\ ClearSessionData
  \/ Waiting /\ \E f \in Files : UploadFile(f)
  \/ Waiting /\ RemoveFile
  \/ Waiting /\ StartAnalysis
  \/ AnalysisStep
  \/ CompleteAnalysis
  \/ Waiting /\ Rerun

PatientSpec ==
  /\ Init
  /\ [][PatientNext]_vars
  /\ WF_vars(AnalysisStep)
  /\ WF_vars(CompleteAnalysis)

(***************************************************************************)
(* The sessions that look at the columns of the export and at the export   *)
(* history: three roles, the spreadsheet with the unusual labels, every    *)
(* export.                                                                 *)
(***************************************************************************)
TableNext ==
  \/ \E u \in TableUsernames : LoginSubmit(u, COMMON_PASSWORD)
  \/ Logout
  \/ \E f \in TableFiles : UploadFile(f)
  \/ \E c \in {ZeroLabel, "review", "sentiment_score"} : SelectTextColumn(c)
  \/ StartAnalysis
  \/ AnalysisStep
  \/ CompleteAnalysis
  \/ ExportSummaryReport
  \/ ExportDetailedAnalysis
  \/ ExportSampleData
  \/ ExportChartData
  \/ Rerun

TableSpec == Init /\ [][TableNext]_vars

(***************************************************************************)
(* The sessions that look at the failed attempts: two names, right and     *)
(* wrong passwords, the clock, and the operations that end or clear a      *)
(* session.                                                                *)
(***************************************************************************)
LockNext ==
  \/ Tick
  \/ \E u \in LockUsernames, p \in PasswordInputs : LoginSubmit(u, p)
  \/ Logout
  \/ ClearSessionData
  \/ Rerun

LockSpec == Init /\ [][LockNext]_vars

(***************************************************************************)
(* The sessions that look at the table and the three flags: every          *)
(* operation that writes df, data_loaded, analysis_started or              *)
(* analysis_complete, on every file, with clicks during the progress loop. *)
(***************************************************************************)
FlagNext ==
  \/ \E u \in UsernameInputs, p \in PasswordInputs : LoginSubmit(u, p)
  \/ Logout
  \/ ClearSessionData
  \/ \E f \in Files : UploadFile(f)
  \/ RemoveFile
  \/ StartAnalysis
  \/ AnalysisStep
  \/ CompleteAnalysis
  \/ ExportSummaryReport
  \/ Rerun

FlagSpec == Init /\ [][FlagNext]_vars

(***************************************************************************)
(* Properties.                                                             *)
(***************************************************************************)
Detailed == IsExport(download, "detailed_analysis")

Scores == Column(Get(download).data, "sentiment_score")

Categories == Column(Get(download).data, "sentiment_category")

Rows == 1..len(Get(download).data)

\* the strict threshold rule of the specification for a threshold t
Rule(score, t) ==
  IF score > t THEN "Positive" ELSE IF score < -t THEN "Negative" ELSE "Neutral"

\* C1: in the detailed export every row's sentiment_category agrees with
\* its sentiment_score under the strict rule for the threshold the
\* classification applies (0.3): Positive iff score > t, Negative iff
\* score < -t, Neutral otherwise, so a score equal to t or -t is Neutral.
C1_Theorem ==
  Detailed =>
    \A i \in Rows :
      /\ Categories[i] = "Positive" <=> Scores[i] > CATEGORY_THRESHOLD
      /\ Categories[i] = "Negative" <=> Scores[i] < -CATEGORY_THRESHOLD
      /\ Categories[i] = "Neutral" <=>
           (Scores[i] <= CATEGORY_THRESHOLD /\ Scores[i] >= -CATEGORY_THRESHOLD)

\* a detailed export with a row on the boundary, a positive and a negative row
C1_Witness ==
  /\ Detailed
  /\ \E i \in Rows : Scores[i] = CATEGORY_THRESHOLD /\ Categories[i] = "Neutral"
  /\ \E i \in Rows : Categories[i] = "Positive"
  /\ \E i \in Rows : Categories[i] = "Negative"

\* C2: the rows of the detailed export are classified against the
\* configured Sentiment Threshold, whatever its value.
C2_Claim ==
  Detailed => \A i \in Rows : Categories[i] = Rule(Scores[i], sentiment_threshold)

\* number of rows of a table whose text does not survive cleaning
Dropped(tbl, col) ==
  Cardinality({i \in 1..len(tbl) : ~Survives(Column(tbl, col)[i])})

AnalyzedLabels(tbl) ==
  LET draw == CHOOSE x \in UniformScore(SeedForExport(rng), len(tbl)) : TRUE
  IN  [i \in 1..len(tbl) |-> Category(draw.values[i])]

\* share of a label among the rows of a table, in tenths of a percent
Share(tbl, label) ==
  RoundDiv(1000 * Cardinality({i \in 1..len(tbl) : AnalyzedLabels(tbl)[i] = label}),
           len(tbl))

\* C4: the percentages of the results view and of the summary report are
\* each label's share of the rows of the analyzed table.
C4_Claim ==
  /\ (view.tab3 = "results" /\ ~view.exception) =>
       /\ view.positive = Share(Get(df), "Positive")
       /\ view.negative = Share(Get(df), "Negative")
       /\ view.neutral = Share(Get(df), "Neutral")
  /\ IsExport(download, "summary_report") =>
       /\ Get(download).data.positive = Share(Get(df), "Positive")
       /\ Get(download).data.negative = Share(Get(df), "Negative")
       /\ Get(download).data.neutral = Share(Get(df), "Neutral")

\* C5: two rows with identical text receive identical scores and labels.
C5_Claim ==
  Detailed =>
    LET text == Column(Get(df), Get(text_column)) IN
    \A i, j \in Rows :
      text[i] = text[j] => Scores[i] = Scores[j] /\ Categories[i] = Categories[j]

\* C6: a detailed export repeated on the unchanged table with the unchanged
\* threshold yields the scores and labels of the earlier one, whatever was
\* exported in between.
C6_Theorem ==
  [][(/\ IsExport(download', "detailed_analysis")
      /\ ~IsNone(prev_detailed)
      /\ df' = df
      /\ sentiment_threshold' = sentiment_threshold)
     => ScoresAndLabels(download') = Get(prev_detailed).result]_vars

\* a detailed export that repeats an earlier one after another export
C6_Witness == Detailed /\ ~IsNone(prev_detailed) /\ Get(prev_detailed).repeated

\* C7: a file within the size limit that parses is never reported as
\* "Error loading file"; it is stored and Start Secure Analysis is offered.
C7_Claim ==
  (/\ authenticated
   /\ ~IsNone(uploaded_file)
   /\ ~FileTooLarge(Get(uploaded_file))
   /\ ~IsNone(FileContent(Get(uploaded_file))))
  => /\ ~view.load_error
     /\ df = FileContent(Get(uploaded_file))
     /\ view.start_offered

\* C8: the upload of a file larger than MAX_FILE_SIZE_MB is answered with
\* the size error and leaves df, file_name, text_column, data_loaded,
\* analysis_started and analysis_complete as they were; a file of exactly
\* the maximum size is accepted.
C8_Theorem ==
  [][(uploaded_file' # uploaded_file /\ ~IsNone(uploaded_file') /\ authenticated')
     => IF Get(uploaded_file').size > MAX_FILE_SIZE_MB * BYTES_PER_MB
        THEN /\ view'.size_error
             /\ ~view'.start_offered
             /\ UNCHANGED <<df, file_name, text_column, data_loaded,
                            analysis_started, analysis_complete>>
        ELSE ~view'.size_error]_vars

\* an oversize file was rejected while the session held a loaded table of a
\* completed analysis
C8_Witness ==
  /\ view.size_error
  /\ ~IsNone(uploaded_file)
  /\ ~IsNone(df)
  /\ data_loaded
  /\ analysis_complete

\* C9: after a new file is loaded while an analysis was started or complete
\* for an earlier table, both flags are false.
C9_Claim ==
  [][(/\ uploaded_file' # uploaded_file
      /\ df' # df
      /\ ~IsNone(df)
      /\ ~IsNone(df')
      /\ (analysis_started \/ analysis_complete))
     => (~analysis_started' /\ ~analysis_complete')]_vars

\* C10: the results view, the downloads and the export events exist only
\* with analysis_complete true, and analysis_complete becomes true only at
\* the end of the progress loop of a started analysis.
C10_Theorem ==
  /\ [](/\ view.tab3 = "results" => analysis_complete
        /\ ~IsNone(download) => analysis_complete
        /\ logged.export # <<>> => analysis_complete)
  /\ [][(~analysis_complete /\ analysis_complete')
        => (/\ pc = "steps"
            /\ step = Len(steps)
            /\ progress = 100
            /\ analysis_started)]_vars

\* an export was logged and offered for download after the loop had run
C10_Witness ==
  /\ logged.export # <<>>
  /\ ~IsNone(download)
  /\ analysis_complete
  /\ progress = 100

(***************************************************************************)
(* Claims C11 to C20.                                                      *)
(***************************************************************************)

LockedOut(name) ==
  /\ login_attempts[name].attempts >= 3
  /\ now - login_attempts[name].last_attempt < 300

TooManyAttempts == "Too many failed attempts. Please try again in 5 minutes."

\* C12: a login submitted for a username that has 3 failed attempts on
\* record (names compared after trimming and lower-casing), less than 300
\* seconds after the last of them, is rejected with the 'Too many failed
\* attempts' message whatever the password, and records nothing.
C12_Theorem ==
  [][\A u \in SessionUsernames, p \in PasswordInputs :
       (LockedOut(StripLower(u)) /\ LoginSubmit(u, p))
       => /\ ~authenticated'
          /\ view'.login_error = TooManyAttempts
          /\ login_attempts' = login_attempts]_vars

\* a login was rejected for too many attempts some time after the third
\* failed attempt for "admin", made under the name " Admin" or "admin"
C12_Witness ==
  /\ ~authenticated
  /\ view.login_error = TooManyAttempts
  /\ login_attempts["admin"].attempts = 3
  /\ now - login_attempts["admin"].last_attempt = 299

\* the steps that continue a run or let time pass; every other step of an
\* authenticated session begins a script run
RunBegins == authenticated /\ ~(Tick \/ AnalysisStep \/ CompleteAnalysis)

LogoutEvent == [timestamp |-> now, username |-> username, action |-> "logout"]

\* C13: a run that begins more than 3600 s after the last recorded activity
\* logs the session out and renders the login page only; any other run of
\* an authenticated session sets last_activity to the current time and,
\* unless the logout button ended it, stays authenticated - also at a gap
\* of exactly 3600 s.
C13_Theorem ==
  [][RunBegins =>
       IF now - last_activity > 3600
       THEN /\ logged'.timeout
            /\ ~authenticated'
            /\ logged'.audit = <<LogoutEvent>>
            /\ view' = [BlankView EXCEPT !.page = "login"]
            /\ IsNone(download')
       ELSE /\ ~logged'.timeout
            /\ last_activity' = now
            /\ authenticated' \/ logged'.audit = <<LogoutEvent>>]_vars

\* a session with a loaded table was logged out by the timeout
C13_Witness ==
  /\ logged.timeout
  /\ ~authenticated
  /\ view.page = "login"
  /\ Len(logged.audit) = 1

\* C14: a logout, by the button or by the timeout, appends exactly one
\* logout event to analysis_history, keeps export_history, and leaves every
\* other key at its initial default with the session unauthenticated.
C14_Theorem ==
  [][(authenticated /\ ~authenticated')
     => /\ logged'.audit = <<LogoutEvent>>
        /\ analysis_history' = Keep(Append(analysis_history, LogoutEvent))
        /\ export_history' = export_history
        /\ logged'.export = <<>>
        /\ IsNone(df') /\ IsNone(text_column') /\ IsNone(file_name')
        /\ IsNone(username')
        /\ user_role' = "user"
        /\ session_id' = NewSessionId(now)
        /\ \A n \in NormalNames : login_attempts'[n].attempts = 0
        /\ last_activity' = now
        /\ ~analysis_started' /\ ~analysis_complete' /\ ~data_loaded'
        /\ IsNone(uploaded_file') /\ IsNone(text_column_selector')]_vars

\* a session that had a table, a completed analysis and an export was logged
\* out; the export history is still there
C14_Witness ==
  /\ ~authenticated
  /\ Len(logged.audit) = 1
  /\ export_history # <<>>
  /\ IsNone(df)
  /\ now > 0

\* C15: the detailed export carries every column of the uploaded table
\* under its name, with its values in the order of the rows, and adds the
\* six analysis columns to them.
C15_Claim ==
  Detailed =>
    LET out == Get(download).data
        orig == Get(df)
    IN  /\ len(out) = len(orig)
        /\ Len(out.columns) = Len(orig.columns) + 6
        /\ SubSeq(out.columns, 1, Len(orig.columns)) = orig.columns
        /\ \A i \in 1..len(orig) : \A c \in 1..Len(orig.columns) :
              out.rows[i][c] = orig.rows[i][c]

\* C16: the detailed export has one row for each row of the table, each
\* with one label out of Positive, Neutral and Negative and one score from
\* -1.0 to 1.0.
C16_Theorem ==
  Detailed =>
    /\ len(Get(download).data) = len(Get(df))
    /\ DOMAIN Scores = Rows
    /\ DOMAIN Categories = Rows
    /\ \A i \in Rows :
         /\ Categories[i] \in {"Positive", "Neutral", "Negative"}
         /\ Scores[i] \in -1000..1000

\* a detailed export of the large table with scores near both ends
C16_Witness ==
  /\ Detailed
  /\ len(Get(download).data) = BoundaryRows
  /\ \E i \in Rows : Scores[i] > 900
  /\ \E i \in Rows : Scores[i] < -900

\* C17: a run that offers a download has appended exactly one event to
\* export_history, with the acting username and the type of the export; a
\* run that offers none has appended nothing; export_history changes in no
\* other way.
C17_Theorem ==
  /\ [](IF IsNone(download)
        THEN logged.export = <<>>
        ELSE /\ Len(logged.export) = 1
             /\ logged.export[1].username = username
             /\ logged.export[1].export_type = Get(download).export_type
             /\ export_history # <<>>
             /\ export_history[Len(export_history)] = logged.export[1])
  /\ [][export_history' # export_history
        => /\ Len(logged'.export) = 1
           /\ export_history' = Keep(Append(export_history, logged'.export[1]))]_vars

\* the sample export of the guest was offered and logged
C17_Witness ==
  /\ IsExport(download, "sample_data")
  /\ user_role = "guest"
  /\ Len(logged.export) = 1
  /\ logged.export[1].export_type = "sample_data"

\* an export button was clicked and no download was offered: the text
\* column is the label 0
C17_NoDownload ==
  /\ view.no_data_warning
  /\ IsNone(download)
  /\ text_column = Some(ZeroLabel)

\* C18: every file put into the uploader leaves an event with its name in
\* analysis_history, whether it is loaded, fails to load or is too large.
C18_Claim ==
  [][(authenticated' /\ ~IsNone(uploaded_file') /\ uploaded_file' # uploaded_file)
     => \E i \in 1..Len(logged'.audit) :
          /\ "filename" \in DOMAIN logged'.audit[i]
          /\ logged'.audit[i].filename = Get(uploaded_file').name]_vars

HistoryForAdminOnly == view.history_shown => (authenticated /\ user_role = "admin")

\* C19 as claimed: the export history is shown to the role admin only, and
\* user_role changes only in a successful login.
C19_Claim ==
  /\ []HistoryForAdminOnly
  /\ [][user_role' # user_role => (~authenticated /\ authenticated')]_vars

\* C19 as amended: the export history is shown to the role admin only, and
\* user_role changes only in a successful login or in a logout, which
\* resets it to 'user'.
C19_Theorem ==
  /\ []HistoryForAdminOnly
  /\ [][user_role' # user_role
        => \/ ~authenticated /\ authenticated'
           \/ authenticated /\ ~authenticated' /\ user_role' = "user"]_vars

\* a guest looks at the results while exports are on record and is not
\* shown the export history
C19_Witness ==
  /\ authenticated
  /\ user_role = "guest"
  /\ view.tab3 = "results"
  /\ export_history # <<>>
  /\ ~view.history_shown

\* C20: the texts of a completed analysis, whose third step is the
\* sanitizing of the text content, are at most 500 characters long.
C20_Claim ==
  (analysis_complete /\ ~IsNone(df) /\ ~IsNone(text_column)
     /\ Get(text_column) = "review")
  => \A i \in 1..len(Get(df)) : Len(Column(Get(df), "review")[i]) <= 500

(***************************************************************************)
(* Claims C21 to C24.                                                      *)
(***************************************************************************)

\* the successful login under the name: the step that authenticates the
\* session with that username, trimmed and lower-cased
LoggedInAs(name) ==
  /\ ~authenticated
  /\ authenticated'
  /\ StripLower(Get(username')) = name

\* C22: the count of failed attempts of a username goes down only in a
\* successful login under that username, and a username that is locked out
\* stays locked out as long as less than 300 seconds have passed since its
\* last failed attempt, whatever the step.
C22_Claim ==
  [][\A name \in NormalNames :
       /\ login_attempts'[name].attempts < login_attempts[name].attempts
            => LoggedInAs(name)
       /\ (LockedOut(name) /\ now' - login_attempts[name].last_attempt < 300)
            => LockedOut(name)']_vars

\* the events of the last run that are not its logout event
DashboardEvents ==
  {i \in 1..Len(logged.audit) :
     ~("action" \in DOMAIN logged.audit[i] /\ logged.audit[i].action = "logout")}

\* C23: a session that is not authenticated holds no table, no text column,
\* no file name and none of the three flags, and the run that left it there
\* showed the login page only: it loaded nothing, ran no analysis step and
\* exported nothing.
C23_Theorem ==
  ~authenticated =>
    /\ IsNone(df)
    /\ IsNone(text_column)
    /\ IsNone(file_name)
    /\ ~analysis_started
    /\ ~analysis_complete
    /\ ~data_loaded
    /\ pc = "idle"
    /\ view.page = "login"
    /\ ~view.uploaded_card
    /\ ~view.start_offered
    /\ view.tab2 = "none"
    /\ view.tab3 = "none"
    /\ IsNone(download)
    /\ logged.export = <<>>
    /\ DashboardEvents = {}

\* a session that had exported the results of an analysis was ended by the
\* timeout
C23_Witness ==
  /\ ~authenticated
  /\ logged.timeout
  /\ export_history # <<>>
  /\ analysis_history # <<>>

\* C24: at the end of a script run analysis_complete implies
\* analysis_started, analysis_started implies data_loaded, data_loaded holds
\* exactly when a table is stored, and neither the 'Ready for Analysis' card
\* nor the results view has taken the length of a missing table.
C24_Theorem ==
  pc = "idle" =>
    /\ analysis_complete => analysis_started
    /\ analysis_started => data_loaded
    /\ data_loaded <=> ~IsNone(df)
    /\ ~view.exception

\* the results view counted the rows of the stored table in a run that
\* found the uploader empty
C24_Witness ==
  /\ pc = "idle"
  /\ IsNone(uploaded_file)
  /\ analysis_complete
  /\ data_loaded
  /\ view.tab3 = "results"
  /\ view.records = len(Get(df))
  /\ view.records > 0

=============================================================================
